---------------------------- MODULE Spec2Model ----------------------------
(***************************************************************************)
(* A model of src/src/script.rs: the Script value, the ScriptInvocation    *)
(* builder, the blocking executor ScriptInvocation::invoke and the         *)
(* non-blocking executor invoke_async / InvokeAsyncFuture::poll.           *)
(*                                                                         *)
(* One caller drives one invocation: it binds keys and arguments, starts   *)
(* one of the two executors, and takes the outcome.  The connection is the *)
(* environment: under Spec it may answer every command with any reply,     *)
(* under SpecStore it is a server with a script cache, under SpecEquiv it  *)
(* follows a fixed plan of replies so that both executors can be run       *)
(* against the same server behaviour.  SpecLive is Spec with a fair        *)
(* scheduler and a server that keeps the script once loaded; SpecConc runs *)
(* several non-blocking executions of the invocation against one store.    *)
(***************************************************************************)
EXTENDS Naturals, Sequences, FiniteSets

VARIABLES
    script,     \* the Script: [code, hash]
    keys,       \* ScriptInvocation.keys : Vec<Vec<u8>>
    args,       \* ScriptInvocation.args : Vec<Vec<u8>>
    pc,         \* where the caller is: "idle", "eval", "load", "async", "done"
    exec,       \* the executor of the current execution: "none", "invoke", "invoke_async"
    rtype,      \* the result type T the caller asked for
    fut,        \* the InvokeAsyncFuture: [eval_cmd, load_cmd, status, future]
    wire,       \* the commands this execution has issued to the connection
    replies,    \* the raw replies the connection has given this execution
    result,     \* what the executor returned to the caller
    cache,      \* the server's script cache: a set of hashes (SpecStore)
    runs,       \* the number of executions started (SpecStore, SpecEquiv)
    plan,       \* the replies a scripted connection will give, in order (SpecEquiv)
    last,       \* the previous execution's commands and outcome (SpecEquiv)
    made,       \* how the invocation came to be: the constructor and the value's
                \* byte-strings, or "bound" once a binding call has been made on it
    procs       \* the concurrent non-blocking executions (SpecConc)

vars == <<script, keys, args, pc, exec, rtype, fut, wire, replies, result,
          cache, runs, plan, last, made, procs>>

env_vars == <<cache, runs, plan, last, procs>>

---------------------------------------------------------------------------
(* Bounds of the model *)

\* the most byte-strings the keys (and the args) sequence holds
MaxBind == 2
\* the most byte-strings one bound value serialises to
MaxWrite == 2
\* the most commands one blocking execution issues before the model stops it
MaxCmds == 5
\* the most executions of one invocation against the script store
MaxRuns == 3
\* the number of replies a scripted connection has planned
MaxPlan == 3
\* the number of concurrent non-blocking executions
NProcs == 2

---------------------------------------------------------------------------
(* Data *)

\* the byte-strings a bound value can serialise to
ByteStrings == {"x", "y"}

\* the script bodies the caller constructs a Script from
Sources == {"return 1", "return ARGV[1]"}

\* the result types T a caller can ask for
Types == {"unit", "i32", "String"}

NoScriptError == "NoScriptError"
TypeError     == "TypeError"

NoValue == [tag |-> "-", v |-> "-"]
NoError == [kind |-> "-", detail |-> "-"]

Nil       == [tag |-> "Nil", v |-> ""]
Int(s)    == [tag |-> "Int", v |-> s]
Data(s)   == [tag |-> "Data", v |-> s]

\* the wire values a scripted connection answers with
Values == {Int("1"), Data("foo"), Nil}

\* the failures a scripted connection answers with
Errors == {[kind |-> NoScriptError, detail |-> "NOSCRIPT No matching script"],
           [kind |-> "ResponseError", detail |-> "ERR Error compiling script"],
           [kind |-> "IoError", detail |-> "broken pipe"]}

\* RedisResult: a value or an error
Ok(val)  == [ok |-> TRUE, val |-> val, err |-> NoError]
Err(err) == [ok |-> FALSE, val |-> NoValue, err |-> err]

\* what a connection can answer to one command
Replies == {Ok(v) : v \in Values} \cup {Err(e) : e \in Errors}

None == [ok |-> FALSE, val |-> NoValue, err |-> NoError]

Digit(n) == <<"0", "1", "2", "3", "4", "5", "6", "7", "8", "9">>[n + 1]

RECURSIVE Itoa(_)
\* usize::to_redis_args: the decimal digits of n
Itoa(n) == IF n < 10 THEN Digit(n) ELSE Itoa(n \div 10) \o Digit(n % 10)

\* the byte-strings that parse as an integer, as far as the model's values go
Decimals == {Itoa(n) : n \in 0 .. 9}

\* Sha1::digest().to_string(): the 40 hex digits of the SHA-1 of the bytes
Sha1Hex(code) ==
    CASE code = "return 1"       -> "e0e1f9fabfc9d4800c877a703b823ac0578ff8db"
      [] code = "return ARGV[1]" -> "098e0f0d1448c0a81dafe820f66d460eb09263da"
      [] OTHER                   -> "da39a3ee5e6b4b0d3255bfef95601890afd80709"

\* a slip: the digest taken before the bytes are fed to the hasher
NewDigestOfNothing(code) == [code |-> code, hash |-> Sha1Hex("")]

\* Script::new
New(code) == [code |-> code, hash |-> Sha1Hex(code)]

\* Script::get_hash
get_hash(s) == s.hash

---------------------------------------------------------------------------
(* Collaborators: the command builder and the bytes -> value contract *)

\* cmd(name)
cmd(name) == [name |-> name, args |-> <<>>]

\* Cmd::arg: appends the byte-strings the value serialises to, in order
CmdArg(c, ws) == [c EXCEPT !.args = @ \o ws]

\* FromRedisValue::from_redis_value for T: the typed value, or a type error
Decode(T, v) ==
    CASE T = "unit"   -> Ok([tag |-> "unit", v |-> "()"])
      [] T = "i32"    -> IF v.tag = "Int" \/ (v.tag = "Data" /\ v.v \in Decimals)
                         THEN Ok([tag |-> "i32", v |-> v.v])
                         ELSE Err([kind |-> TypeError, detail |-> "not i32"])
      [] T = "String" -> IF v.tag = "Data"
                         THEN Ok([tag |-> "String", v |-> v.v])
                         ELSE Err([kind |-> TypeError, detail |-> "not String"])

\* Cmd::query / Cmd::query_async for T, given the connection's reply
Query(T, r) == IF r.ok THEN Decode(T, r.val) ELSE Err(r.err)

---------------------------------------------------------------------------
(* The commands of an invocation *)

\* a layout slip: the arguments put before the keys
EvalCmdArgsFirst(s, ks, as) ==
    CmdArg(CmdArg(CmdArg(CmdArg(cmd("EVALSHA"), <<s.hash>>), <<Itoa(Len(ks))>>), as), ks)

\* the EVALSHA command of script.rs:131-135 and 161-166
EvalCmd(s, ks, as) ==
    CmdArg(CmdArg(CmdArg(CmdArg(cmd("EVALSHA"), <<s.hash>>), <<Itoa(Len(ks))>>), ks), as)

\* a SCRIPT LOAD that would send the digest in place of the source text
LoadCmdHash(s) == CmdArg(CmdArg(cmd("SCRIPT"), <<"LOAD">>), <<s.hash>>)

\* the SCRIPT LOAD command of script.rs:143-145 and 168-169
LoadCmd(s) == CmdArg(CmdArg(cmd("SCRIPT"), <<"LOAD">>), <<s.code>>)


---------------------------------------------------------------------------
(* The state after construction *)

\* the sub-operation of a non-blocking executor: a query_async future that
\* owns a clone of its command; "created" until first polled, "sent" while the
\* round trip is outstanding, "replied" once the connection has answered
NewQuery(c) == [cmd |-> c, st |-> "created", reply |-> None]

NoFut == [eval_cmd |-> cmd("-"), load_cmd |-> cmd("-"), status |-> "-",
          future |-> [cmd |-> cmd("-"), st |-> "-", reply |-> None]]

NoLast == [exec |-> "none", rtype |-> "unit", wire |-> <<>>, replies |-> <<>>,
           result |-> None]

\* the sequences of at most n elements of S
RECURSIVE SeqsUpTo(_, _)
SeqsUpTo(S, n) ==
    IF n = 0 THEN {<<>>}
    ELSE LET shorter == SeqsUpTo(S, n - 1)
         IN  shorter \cup {Append(q, x) : q \in {t \in shorter : Len(t) = n - 1}, x \in S}

\* ToRedisArgs: what one bound value can serialise to
Writes == SeqsUpTo(ByteStrings, MaxWrite)

\* a caller holding a fresh Script and an empty invocation (prepare_invoke)
InitCore ==
    /\ script \in {New(code) : code \in Sources}
    /\ keys = <<>>
    /\ args = <<>>
    /\ pc = "idle"
    /\ exec = "none"
    /\ rtype = "unit"
    /\ fut = NoFut
    /\ wire = <<>>
    /\ replies = <<>>
    /\ result = None
    /\ made = [by |-> "prepare_invoke", ws |-> <<>>]

Init ==
    /\ InitCore
    /\ cache = {}
    /\ runs = 0
    /\ plan = <<>>
    /\ last = NoLast
    /\ procs = <<>>

---------------------------------------------------------------------------
(* The invocation builder.  The caller binds while no execution is under   *)
(* way: invoke borrows the invocation for the whole call, and invoke_async *)
(* copies keys and args into eval_cmd when it is called.                   *)

\* a binding call has been made on the invocation
Bound == [by |-> "bound", ws |-> <<>>]

\* a slip: the value of Script::key filled in as an argument
Script_key_as_arg(ws) ==
    /\ pc = "idle"
    /\ Len(ws) <= MaxBind
    /\ keys' = <<>>
    /\ args' = ws
    /\ made' = [by |-> "Script::key", ws |-> ws]
    /\ UNCHANGED <<script, pc, exec, rtype, fut, wire, replies, result>>

\* Script::key: a new invocation, keys: key.to_redis_args(), args: vec![]
Script_key(ws) ==
    /\ pc = "idle"
    /\ Len(ws) <= MaxBind
    /\ keys' = ws
    /\ args' = <<>>
    /\ made' = [by |-> "Script::key", ws |-> ws]
    /\ UNCHANGED <<script, pc, exec, rtype, fut, wire, replies, result>>

\* Script::arg: a new invocation, args: arg.to_redis_args(), keys: vec![]
Script_arg(ws) ==
    /\ pc = "idle"
    /\ Len(ws) <= MaxBind
    /\ keys' = <<>>
    /\ args' = ws
    /\ made' = [by |-> "Script::arg", ws |-> ws]
    /\ UNCHANGED <<script, pc, exec, rtype, fut, wire, replies, result>>

\* Script::prepare_invoke: a new invocation, args: vec![], keys: vec![]
prepare_invoke ==
    /\ pc = "idle"
    /\ keys' = <<>>
    /\ args' = <<>>
    /\ made' = [by |-> "prepare_invoke", ws |-> <<>>]
    /\ UNCHANGED <<script, pc, exec, rtype, fut, wire, replies, result>>

\* ScriptInvocation::key: key.write_redis_args(&mut self.keys)
key(ws) ==
    /\ pc = "idle"
    /\ Len(keys) + Len(ws) <= MaxBind
    /\ keys' = keys \o ws
    /\ made' = Bound
    /\ UNCHANGED <<script, args, pc, exec, rtype, fut, wire, replies, result>>

\* ScriptInvocation::arg: arg.write_redis_args(&mut self.args)
arg(ws) ==
    /\ pc = "idle"
    /\ Len(args) + Len(ws) <= MaxBind
    /\ args' = args \o ws
    /\ made' = Bound
    /\ UNCHANGED <<script, keys, pc, exec, rtype, fut, wire, replies, result>>

---------------------------------------------------------------------------
(* The blocking executor, ScriptInvocation::invoke *)

\* a slip: every failure of EVALSHA taken for a cache miss
AnyError(err) == err.kind \in {NoScriptError, TypeError, "ResponseError", "IoError"}

\* a bounded variant: a cache miss reloads once only
IsNoScriptOnce(err) == err.kind = NoScriptError /\ Len(wire) < 3

\* a slip: a response error taken for a cache miss too
IsNoScriptOrResponse(err) == err.kind \in {NoScriptError, "ResponseError"}

\* err.kind() == ErrorKind::NoScriptError (script.rs:142)
IsNoScript(err) == err.kind = NoScriptError

\* the call: the loop is entered and the first EVALSHA is issued
invoke(T) ==
    /\ pc = "idle"
    /\ exec' = "invoke"
    /\ rtype' = T
    /\ wire' = <<EvalCmd(script, keys, args)>>
    /\ replies' = <<>>
    /\ result' = None
    /\ pc' = "eval"
    /\ UNCHANGED <<script, keys, args, made, fut>>

\* the EVALSHA query returns: the match of script.rs:137-151
eval_returns(r) ==
    /\ pc = "eval"
    /\ replies' = Append(replies, r)
    /\ LET q == Query(rtype, r)
       IN  IF q.ok
           THEN /\ result' = q
                /\ pc' = "done"
                /\ wire' = wire
           ELSE IF IsNoScript(q.err)
           THEN /\ Len(wire) < MaxCmds
                /\ wire' = Append(wire, LoadCmd(script))
                /\ pc' = "load"
                /\ result' = result
           ELSE /\ result' = Err(q.err)
                /\ pc' = "done"
                /\ wire' = wire
    /\ UNCHANGED <<script, keys, args, made, exec, rtype, fut>>

\* a slip: the ? dropped, the failure of SCRIPT LOAD swallowed
LoadQuerySwallowed(r) == Ok([tag |-> "unit", v |-> "()"])

\* let _: () = cmd("SCRIPT").arg("LOAD")...query(con)  (script.rs:143-146)
LoadQuery(r) == Query("unit", r)

\* the SCRIPT LOAD query returns: ? returns its failure, otherwise the loop
\* goes round and issues EVALSHA again
load_returns(r) ==
    /\ pc = "load"
    /\ replies' = Append(replies, r)
    /\ LET q == LoadQuery(r)
       IN  IF q.ok
           THEN /\ Len(wire) < MaxCmds
                /\ wire' = Append(wire, EvalCmd(script, keys, args))
                /\ pc' = "eval"
                /\ result' = result
           ELSE /\ result' = Err(q.err)
                /\ pc' = "done"
                /\ wire' = wire
    /\ UNCHANGED <<script, keys, args, made, exec, rtype, fut>>

---------------------------------------------------------------------------
(* The non-blocking executor, invoke_async and InvokeAsyncFuture::poll *)

\* the InvokeAsyncFuture that invoke_async makes (script.rs:161-182)
InvokeAsyncFuture(s, ks, as) ==
    [eval_cmd |-> EvalCmd(s, ks, as),
     load_cmd |-> LoadCmd(s),
     status   |-> "NotLoaded",
     future   |-> NewQuery(EvalCmd(s, ks, as))]

\* the call: both commands are built from the invocation, and the executor
\* starts NotLoaded owning the first EVALSHA sub-operation
invoke_async(T) ==
    /\ pc = "idle"
    /\ exec' = "invoke_async"
    /\ rtype' = T
    /\ fut' = InvokeAsyncFuture(script, keys, args)
    /\ wire' = <<>>
    /\ replies' = <<>>
    /\ result' = None
    /\ pc' = "async"
    /\ UNCHANGED <<script, keys, args, made>>

\* a slip: the answer of the connection never seen by the sub-operation
PollQueryNeverReady(f) ==
    CASE f.st = "created" -> [future |-> [f EXCEPT !.st = "sent"], sent |-> <<f.cmd>>,
                              ready |-> FALSE]
      [] OTHER            -> [future |-> f, sent |-> <<>>, ready |-> FALSE]

\* a slip: the command sent again at every poll of a pending sub-operation
PollQueryResends(f) ==
    CASE f.st \in {"created", "sent"} ->
              [future |-> [f EXCEPT !.st = "sent"], sent |-> <<f.cmd>>, ready |-> FALSE]
      [] OTHER -> [future |-> f, sent |-> <<>>, ready |-> TRUE]

\* self_.future.as_mut().poll(cx): the first poll sends the command; the
\* sub-operation is ready once the connection has answered
PollQuery(f) ==
    CASE f.st = "created" -> [future |-> [f EXCEPT !.st = "sent"], sent |-> <<f.cmd>>,
                              ready |-> FALSE]
      [] f.st = "sent"    -> [future |-> f, sent |-> <<>>, ready |-> FALSE]
      [] OTHER            -> [future |-> f, sent |-> <<>>, ready |-> TRUE]

\* a slip: every success before Loaded takes the reissue branch
ReloadUnlessLoaded(status) == status # "Loaded"

\* self_.status == ScriptStatus::Loading (script.rs:216)
Reload(status) == status = "Loading"

\* a slip: the status test dropped, a cache miss reloads in every state
RecoverableAnyStatus(err, status) == err.kind = NoScriptError

\* a slip: a type error taken for recoverable too
RecoverableOrType(err, status) ==
    err.kind \in {NoScriptError, TypeError} /\ status = "NotLoaded"

\* err.kind() == NoScriptError && self_.status == NotLoaded (script.rs:227-228)
Recoverable(err, status) == err.kind = NoScriptError /\ status = "NotLoaded"

\* a slip: Pending returned right after the next sub-operation is installed,
\* without the loop going round to poll it
pollWithoutLoop(self, T) ==
    LET p == PollQuery(self.future)
    IN  IF ~p.ready
        THEN [self |-> [self EXCEPT !.future = p.future], sent |-> p.sent,
              ready |-> FALSE, res |-> None]
        ELSE LET q == Query(T, self.future.reply)
             IN  IF q.ok
                 THEN IF Reload(self.status)
                      THEN [self |-> [self EXCEPT !.status = "Loaded",
                                                  !.future = NewQuery(self.eval_cmd)],
                            sent |-> <<>>, ready |-> FALSE, res |-> None]
                      ELSE [self |-> self, sent |-> <<>>, ready |-> TRUE, res |-> Ok(q.val)]
                 ELSE IF Recoverable(q.err, self.status)
                      THEN [self |-> [self EXCEPT !.status = "Loading",
                                                  !.future = NewQuery(self.load_cmd)],
                            sent |-> <<>>, ready |-> FALSE, res |-> None]
                      ELSE [self |-> self, sent |-> <<>>, ready |-> TRUE, res |-> Err(q.err)]

RECURSIVE poll(_, _)
\* one call of InvokeAsyncFuture::poll on self, the loop of script.rs:213-240:
\* the executor after the call, the commands the call sent, and Poll::Pending
\* (ready = FALSE) or Poll::Ready(res)
poll(self, T) ==
    LET p == PollQuery(self.future)
    IN  IF ~p.ready
        THEN [self |-> [self EXCEPT !.future = p.future], sent |-> p.sent,
              ready |-> FALSE, res |-> None]
        ELSE LET q == Query(T, self.future.reply)
             IN  IF q.ok
                 THEN IF Reload(self.status)
                      THEN poll([self EXCEPT !.status = "Loaded",
                                             !.future = NewQuery(self.eval_cmd)], T)
                      ELSE [self |-> self, sent |-> <<>>, ready |-> TRUE, res |-> Ok(q.val)]
                 ELSE IF Recoverable(q.err, self.status)
                      THEN poll([self EXCEPT !.status = "Loading",
                                             !.future = NewQuery(self.load_cmd)], T)
                      ELSE [self |-> self, sent |-> <<>>, ready |-> TRUE, res |-> Err(q.err)]

\* the scheduler polls the executor
Poll ==
    /\ pc = "async"
    /\ LET r == poll(fut, rtype)
       IN  /\ fut' = r.self
           /\ wire' = wire \o r.sent
           /\ result' = IF r.ready THEN r.res ELSE result
           /\ pc' = IF r.ready THEN "done" ELSE pc
    /\ UNCHANGED <<script, keys, args, made, exec, rtype, replies>>

\* the connection answers the outstanding sub-operation
answer(r) ==
    /\ pc = "async"
    /\ fut.future.st = "sent"
    /\ fut' = [fut EXCEPT !.future.st = "replied", !.future.reply = r]
    /\ replies' = Append(replies, r)
    /\ UNCHANGED <<script, keys, args, made, pc, exec, rtype, wire, result>>

---------------------------------------------------------------------------
(* The caller *)

\* the caller takes the outcome; the invocation is as it was and can be bound
\* further or executed again
take ==
    /\ pc = "done"
    /\ pc' = "idle"
    /\ exec' = "none"
    /\ rtype' = "unit"
    /\ fut' = NoFut
    /\ wire' = <<>>
    /\ replies' = <<>>
    /\ result' = None
    /\ UNCHANGED <<script, keys, args, made>>

---------------------------------------------------------------------------
(* Spec: a connection that may answer every command with any reply *)

Next ==
    \/ \E ws \in Writes : Script_key(ws) /\ UNCHANGED env_vars
    \/ \E ws \in Writes : Script_arg(ws) /\ UNCHANGED env_vars
    \/ prepare_invoke /\ UNCHANGED env_vars
    \/ \E ws \in Writes : key(ws) /\ UNCHANGED env_vars
    \/ \E ws \in Writes : arg(ws) /\ UNCHANGED env_vars
    \/ \E T \in Types : invoke(T) /\ UNCHANGED env_vars
    \/ \E r \in Replies : eval_returns(r) /\ UNCHANGED env_vars
    \/ \E r \in Replies : load_returns(r) /\ UNCHANGED env_vars
    \/ \E T \in Types : invoke_async(T) /\ UNCHANGED env_vars
    \/ Poll /\ UNCHANGED env_vars
    \/ \E r \in Replies : answer(r) /\ UNCHANGED env_vars
    \/ take /\ UNCHANGED env_vars

Spec == Init /\ [][Next]_vars

---------------------------------------------------------------------------
(* SpecStore: a server with a script cache keyed by hash, empty at first,  *)
(* that never evicts                                                       *)

\* the number a decimal byte-string stands for
Atoi(s) == CHOOSE n \in 0 .. 99 : Itoa(n) = s

\* what the server's Lua interpreter returns for a script body and the
\* arguments of the EVALSHA that runs it: <<hash, numkeys, keys.., args..>>
RunScript(code, eargs) ==
    IF code = "return 1" THEN Int("1")
    ELSE LET argv == SubSeq(eargs, 3 + Atoi(eargs[2]), Len(eargs))
         IN  IF argv = <<>> THEN Nil ELSE Data(argv[1])

\* the server's reply to command c when its cache holds the bodies ch
StoreReply(c, ch) ==
    IF c.name = "EVALSHA"
    THEN IF \E code \in ch : Sha1Hex(code) = c.args[1]
         THEN Ok(RunScript(CHOOSE code \in ch : Sha1Hex(code) = c.args[1], c.args))
         ELSE Err([kind |-> NoScriptError, detail |-> "NOSCRIPT No matching script"])
    ELSE Ok(Data(Sha1Hex(c.args[2])))

\* the server's cache after command c
StoreCache(c, ch) == IF c.name = "SCRIPT" THEN ch \cup {c.args[2]} ELSE ch

\* the command the blocking executor is waiting on
Outstanding == wire[Len(wire)]

NextStore ==
    \/ \E ws \in Writes : key(ws) /\ UNCHANGED env_vars
    \/ \E ws \in Writes : arg(ws) /\ UNCHANGED env_vars
    \/ \E T \in Types :
          /\ runs < MaxRuns
          /\ invoke(T)
          /\ runs' = runs + 1
          /\ UNCHANGED <<cache, plan, last, procs>>
    \/ /\ pc = "eval"
       /\ eval_returns(StoreReply(Outstanding, cache))
       /\ cache' = StoreCache(Outstanding, cache)
       /\ UNCHANGED <<runs, plan, last, procs>>
    \/ /\ pc = "load"
       /\ load_returns(StoreReply(Outstanding, cache))
       /\ cache' = StoreCache(Outstanding, cache)
       /\ UNCHANGED <<runs, plan, last, procs>>
    \/ \E T \in Types :
          /\ runs < MaxRuns
          /\ invoke_async(T)
          /\ runs' = runs + 1
          /\ UNCHANGED <<cache, plan, last, procs>>
    \/ Poll /\ UNCHANGED env_vars
    \/ /\ answer(StoreReply(fut.future.cmd, cache))
       /\ cache' = StoreCache(fut.future.cmd, cache)
       /\ UNCHANGED <<runs, plan, last, procs>>
    \/ take /\ UNCHANGED env_vars

SpecStore == Init /\ [][NextStore]_vars

---------------------------------------------------------------------------
(* SpecEquiv: a connection stub that answers from a fixed plan of replies. *)
(* The invocation is executed by the blocking executor, the stub is        *)
(* rewound, and the same invocation is executed by the non-blocking        *)
(* executor for the same result type.                                      *)

Plans == [1 .. MaxPlan -> Replies]

InitEquiv ==
    /\ InitCore
    /\ cache = {}
    /\ runs = 0
    /\ plan \in Plans
    /\ last = NoLast
    /\ procs = <<>>

\* the stub's next reply
Planned == plan[Len(replies) + 1]

NextEquiv ==
    \/ \E ws \in Writes : runs = 0 /\ key(ws) /\ UNCHANGED env_vars
    \/ \E ws \in Writes : runs = 0 /\ arg(ws) /\ UNCHANGED env_vars
    \/ \E T \in Types :
          /\ runs = 0
          /\ invoke(T)
          /\ runs' = 1
          /\ UNCHANGED <<cache, plan, last, procs>>
    \/ /\ Len(replies) < Len(plan)
       /\ eval_returns(Planned)
       /\ UNCHANGED env_vars
    \/ /\ Len(replies) < Len(plan)
       /\ load_returns(Planned)
       /\ UNCHANGED env_vars
    \/ /\ runs = 1
       /\ take
       /\ last' = [exec |-> exec, rtype |-> rtype, wire |-> wire,
                   replies |-> replies, result |-> result]
       /\ UNCHANGED <<cache, runs, plan, procs>>
    \/ /\ runs = 1
       /\ invoke_async(last.rtype)
       /\ runs' = 2
       /\ UNCHANGED <<cache, plan, last, procs>>
    \/ Poll /\ UNCHANGED env_vars
    \/ /\ Len(replies) < Len(plan)
       /\ answer(Planned)
       /\ UNCHANGED env_vars

SpecEquiv == InitEquiv /\ [][NextEquiv]_vars

---------------------------------------------------------------------------
(* SpecLive: a connection that answers every command, that the blocking    *)
(* executor's query returns from, and a scheduler that polls the non-      *)
(* blocking executor again after each answer.  The server keeps its        *)
(* contract with the blocking executor: an EVALSHA that follows a          *)
(* successful SCRIPT LOAD of the script is not answered "not cached".      *)

\* the server contract for the reply r to the blocking executor's EVALSHA
KeepsContract(r) == Len(wire) >= 3 => ~(~r.ok /\ r.err.kind = NoScriptError)

LiveEvalReturns == \E r \in Replies : KeepsContract(r) /\ eval_returns(r) /\ UNCHANGED env_vars
LiveLoadReturns == \E r \in Replies : load_returns(r) /\ UNCHANGED env_vars
LivePoll        == Poll /\ UNCHANGED env_vars
LiveAnswer      == \E r \in Replies : answer(r) /\ UNCHANGED env_vars

NextLive ==
    \/ \E ws \in Writes : key(ws) /\ UNCHANGED env_vars
    \/ \E ws \in Writes : arg(ws) /\ UNCHANGED env_vars
    \/ \E T \in Types : invoke(T) /\ UNCHANGED env_vars
    \/ LiveEvalReturns
    \/ LiveLoadReturns
    \/ \E T \in Types : invoke_async(T) /\ UNCHANGED env_vars
    \/ LivePoll
    \/ LiveAnswer
    \/ take /\ UNCHANGED env_vars

SpecLive ==
    /\ Init
    /\ [][NextLive]_vars
    /\ WF_vars(LiveEvalReturns)
    /\ WF_vars(LiveLoadReturns)
    /\ WF_vars(LivePoll)
    /\ WF_vars(LiveAnswer)

---------------------------------------------------------------------------
(* SpecConc: several non-blocking executions of the one invocation, each   *)
(* over its own clone of the shared connection, against the script store.  *)
(* The caller binds first, then starts the executions; the scheduler polls *)
(* them and the store answers their commands in any order.                 *)

Procs == 1 .. NProcs

\* an execution not yet started
NewProc == [pc |-> "new", rtype |-> "unit", fut |-> NoFut, wire |-> <<>>,
            replies |-> <<>>, result |-> None]

InitConc ==
    /\ InitCore
    /\ cache = {}
    /\ runs = 0
    /\ plan = <<>>
    /\ last = NoLast
    /\ procs = [p \in Procs |-> NewProc]

core_vars == <<script, keys, args, pc, exec, rtype, fut, wire, replies, result, made>>

\* execution p is started: invoke_async on the invocation
conc_invoke_async(p, T) ==
    /\ procs[p].pc = "new"
    /\ procs' = [procs EXCEPT ![p] = [pc |-> "async", rtype |-> T,
                                      fut |-> InvokeAsyncFuture(script, keys, args),
                                      wire |-> <<>>, replies |-> <<>>, result |-> None]]
    /\ UNCHANGED <<core_vars, cache, runs, plan, last>>

\* the scheduler polls execution p
conc_Poll(p) ==
    /\ procs[p].pc = "async"
    /\ LET r == poll(procs[p].fut, procs[p].rtype)
       IN  procs' = [procs EXCEPT ![p].fut = r.self,
                                  ![p].wire = @ \o r.sent,
                                  ![p].result = IF r.ready THEN r.res ELSE @,
                                  ![p].pc = IF r.ready THEN "done" ELSE @]
    /\ UNCHANGED <<core_vars, cache, runs, plan, last>>

\* the store runs the outstanding command of execution p and answers it
conc_answer(p) ==
    /\ procs[p].pc = "async"
    /\ procs[p].fut.future.st = "sent"
    /\ LET c == procs[p].fut.future.cmd
           r == StoreReply(c, cache)
       IN  /\ procs' = [procs EXCEPT ![p].fut.future.st = "replied",
                                     ![p].fut.future.reply = r,
                                     ![p].replies = Append(@, r)]
           /\ cache' = StoreCache(c, cache)
    /\ UNCHANGED <<core_vars, runs, plan, last>>

\* no execution has been started yet
NoneStarted == \A p \in Procs : procs[p].pc = "new"

NextConc ==
    \/ \E ws \in Writes : NoneStarted /\ key(ws) /\ UNCHANGED env_vars
    \/ \E ws \in Writes : NoneStarted /\ arg(ws) /\ UNCHANGED env_vars
    \/ \E p \in Procs, T \in Types : conc_invoke_async(p, T)
    \/ \E p \in Procs : conc_Poll(p)
    \/ \E p \in Procs : conc_answer(p)

SpecConc == InitConc /\ [][NextConc]_vars

---------------------------------------------------------------------------
(* What the claims speak of *)

\* the names of the commands issued, in order
Names(w) == [i \in 1 .. Len(w) |-> w[i].name]

\* how many of the commands issued are named n
Count(n, w) == Cardinality({i \in 1 .. Len(w) : w[i].name = n})

RetrySequence == <<"EVALSHA", "SCRIPT", "EVALSHA">>

\* the connection answered "script not cached"
NotCached(r) == ~r.ok /\ r.err.kind = NoScriptError

\* the executor has acted on every reply the connection gave: the blocking
\* executor acts on a reply as it returns, the non-blocking one at its next poll
Acted == ~(pc = "async" /\ fut.future.st = "replied")

\* the i-th command was answered and the executor has acted on the answer
Answered(i) == i <= Len(replies) /\ (i < Len(replies) \/ Acted)

---------------------------------------------------------------------------
(* C1: retry on miss.  When the first EVALSHA is answered "not cached" and *)
(* every later command is answered with a value (the EVALSHA's one fitting *)
(* the requested type), a finished execution of either executor has issued *)
(* exactly EVALSHA, SCRIPT LOAD, EVALSHA and returned the value of the     *)
(* second EVALSHA.                                                         *)
C1_RetryOnMiss ==
    (/\ pc = "done"
     /\ Len(replies) >= 1
     /\ NotCached(replies[1])
     /\ \A i \in 2 .. Len(replies) :
           /\ replies[i].ok
           /\ wire[i].name = "EVALSHA" => Decode(rtype, replies[i].val).ok)
    => /\ Names(wire) = RetrySequence
       /\ Len(replies) = 3
       /\ result = Decode(rtype, replies[3].val)

(* C2: the non-blocking executor discards the reply of SCRIPT LOAD.  Once  *)
(* the LOAD has been answered with a value, whatever the value and         *)
(* whatever the requested type, and the executor has been polled, it is    *)
(* Loaded and has issued the retry EVALSHA.                                *)
C2_LoadReplyDiscarded ==
    (/\ exec = "invoke_async"
     /\ Len(replies) >= 2
     /\ replies[2].ok
     /\ Answered(2))
    => /\ fut.status = "Loaded"
       /\ Len(wire) = 3
       /\ wire[3] = fut.eval_cmd

(* C3: the two executors are equivalent.  For the same invocation, result  *)
(* type and planned replies, with EVALSHA answered "not cached" at most    *)
(* once, the non-blocking execution has issued the commands and returned   *)
(* the outcome of the blocking execution before it.                        *)
C3_Equivalent ==
    (/\ runs = 2
     /\ pc = "done"
     /\ last.exec = "invoke"
     /\ exec = "invoke_async"
     /\ Cardinality({i \in 1 .. Len(replies) :
                        wire[i].name = "EVALSHA" /\ NotCached(replies[i])}) <= 1
     /\ Cardinality({i \in 1 .. Len(last.replies) :
                        last.wire[i].name = "EVALSHA" /\ NotCached(last.replies[i])}) <= 1)
    => /\ wire = last.wire
       /\ result = last.result

(* C4: bounded non-blocking retries.  A non-blocking execution issues at   *)
(* most one SCRIPT LOAD and at most two EVALSHA; when the retry EVALSHA is *)
(* answered "not cached" the executor, once polled, has returned that      *)
(* error and issued nothing more.                                          *)
C4_BoundedRetries ==
    exec = "invoke_async" =>
       /\ Count("SCRIPT", wire) <= 1
       /\ Count("EVALSHA", wire) <= 2
       /\ (Answered(3) /\ NotCached(replies[3])) =>
             /\ pc = "done"
             /\ result = Err(replies[3].err)
             /\ Names(wire) = RetrySequence

C4_Witness ==
    /\ exec = "invoke_async"
    /\ pc = "done"
    /\ fut.status = "Loaded"
    /\ Len(replies) = 3
    /\ NotCached(replies[3])

(* C5: LOAD failure passthrough.  In both executors, when a SCRIPT LOAD is *)
(* answered with an error of any kind, the execution ends with exactly     *)
(* that error and the LOAD is the last command it issued.                  *)
C5_LoadFailure ==
    \A i \in 1 .. Len(replies) :
       (wire[i].name = "SCRIPT" /\ ~replies[i].ok /\ Answered(i)) =>
          /\ pc = "done"
          /\ result = Err(replies[i].err)
          /\ Len(wire) = i

C5_Witness ==
    /\ pc = "done"
    /\ exec = "invoke"
    /\ Len(replies) = 2
    /\ NotCached(replies[2])
    /\ result = Err(replies[2].err)

(* C6: non-recoverable passthrough.  In both executors, when an EVALSHA is *)
(* answered with an error that is not "not cached", the execution ends     *)
(* with exactly that error and the EVALSHA is the last command it issued:  *)
(* no SCRIPT LOAD follows it.                                              *)
C6_NonRecoverable ==
    \A i \in 1 .. Len(replies) :
       (wire[i].name = "EVALSHA" /\ ~replies[i].ok /\ ~NotCached(replies[i])
           /\ Answered(i)) =>
          /\ pc = "done"
          /\ result = Err(replies[i].err)
          /\ Len(wire) = i

C6_Witness ==
    /\ pc = "done"
    /\ Len(replies) = 1
    /\ ~replies[1].ok
    /\ replies[1].err.kind = "IoError"
    /\ result = Err(replies[1].err)

(* C7: no spurious load.  In both executors, when the first EVALSHA is     *)
(* answered with a value, the execution ends having issued that one        *)
(* command, never a SCRIPT LOAD, and returns the value decoded to the      *)
(* requested type.                                                         *)
C7_NoSpuriousLoad ==
    (Answered(1) /\ replies[1].ok) =>
       /\ pc = "done"
       /\ Names(wire) = <<"EVALSHA">>
       /\ result = Decode(rtype, replies[1].val)

C7_Witness ==
    /\ pc = "done"
    /\ exec = "invoke_async"
    /\ Len(replies) = 1
    /\ replies[1].ok
    /\ result.ok

(* C8: against the script store.  The first execution of the script        *)
(* issues EVALSHA, SCRIPT LOAD of the body, EVALSHA, leaves the body in    *)
(* the cache and returns the decoded script result; every later execution  *)
(* issues one EVALSHA and returns the decoded result.  (The caller asks    *)
(* for a type the script's result decodes to.)                             *)
C8_StoreProtocol ==
    (/\ pc = "done"
     /\ Decode(rtype, RunScript(script.code, wire[1].args)).ok)
    => /\ result = Decode(rtype, RunScript(script.code, wire[1].args))
       /\ script.code \in cache
       /\ IF runs = 1
          THEN /\ Names(wire) = RetrySequence
               /\ wire[2].args = <<"LOAD", script.code>>
          ELSE Names(wire) = <<"EVALSHA">>

(* C9: a reply of EVALSHA that does not decode to the requested type ends  *)
(* the execution, in both executors, with the type error; the EVALSHA is   *)
(* the last command issued.                                                *)
C9_DecodeFailure ==
    \A i \in 1 .. Len(replies) :
       (/\ wire[i].name = "EVALSHA"
        /\ replies[i].ok
        /\ ~Decode(rtype, replies[i].val).ok
        /\ Answered(i)) =>
          /\ pc = "done"
          /\ ~result.ok
          /\ result.err.kind = TypeError
          /\ Len(wire) = i

C9_Witness ==
    /\ pc = "done"
    /\ Len(replies) = 3
    /\ replies[3].ok
    /\ ~result.ok
    /\ result.err.kind = TypeError

(* C10: positional layout.  Every binding call appends the byte-strings of *)
(* its value, in order, to the sequence it binds to and leaves the other   *)
(* alone; every EVALSHA issued, and the one the non-blocking executor      *)
(* holds, is hash, the decimal count of the keys, the keys in append       *)
(* order, the args in append order.                                        *)
Layout(a) ==
    /\ Len(a) = 2 + Len(keys) + Len(args)
    /\ a[1] = script.hash
    /\ a[2] = Digit(Len(keys))
    /\ \A i \in 1 .. Len(keys) : a[2 + i] = keys[i]
    /\ \A i \in 1 .. Len(args) : a[2 + Len(keys) + i] = args[i]

AppendsOnly ==
    made' = Bound =>
       /\ keys' # keys => args' = args /\ \E ws \in Writes : keys' = keys \o ws
       /\ args' # args => keys' = keys /\ \E ws \in Writes : args' = args \o ws

C10_PositionalLayout ==
    /\ [](\A i \in 1 .. Len(wire) : wire[i].name = "EVALSHA" => Layout(wire[i].args))
    /\ [](exec = "invoke_async" => Layout(fut.eval_cmd.args))
    /\ [][AppendsOnly]_vars

C10_Witness ==
    /\ Len(wire) = 3
    /\ keys = <<"x", "y">>
    /\ args = <<"y", "x">>
    /\ wire[3].args = <<script.hash, "2", "x", "y", "y", "x">>

---------------------------------------------------------------------------
(* C11 as stated: the constructors seed exactly one key (Script::key: one  *)
(* entry in keys, args empty), exactly one arg (Script::arg: one entry in  *)
(* args, keys empty) or neither (prepare_invoke), whatever the value.      *)
C11_ExactlyOne ==
    /\ made.by = "Script::key" => Len(keys) = 1 /\ args = <<>>
    /\ made.by = "Script::arg" => Len(args) = 1 /\ keys = <<>>
    /\ made.by = "prepare_invoke" => keys = <<>> /\ args = <<>>

(* C11 as amended: the constructors seed the byte-strings of the one value *)
(* passed, in order, as the keys (Script::key, args empty) or as the args  *)
(* (Script::arg, keys empty), exactly one entry when the value serialises  *)
(* to one byte-string; prepare_invoke seeds neither.                       *)
C11_SeededWithValue ==
    /\ made.by = "Script::key" =>
          keys = made.ws /\ args = <<>> /\ (Len(made.ws) = 1 => Len(keys) = 1)
    /\ made.by = "Script::arg" =>
          args = made.ws /\ keys = <<>> /\ (Len(made.ws) = 1 => Len(args) = 1)
    /\ made.by = "prepare_invoke" => keys = <<>> /\ args = <<>>

C11_Witness ==
    /\ made.by = "Script::key"
    /\ keys = <<"x">>
    /\ args = <<>>
    /\ pc = "done"

---------------------------------------------------------------------------
(* C12: the hash of the Script is the SHA-1 hex digest of its source text  *)
(* in every reachable state, get_hash returns it, and no step (a binding,  *)
(* a constructor of an invocation, a step of either executor) changes the  *)
(* Script.                                                                 *)
C12_HashMatchesSource ==
    /\ [](script.hash = Sha1Hex(script.code) /\ get_hash(script) = Sha1Hex(script.code))
    /\ [][script' = script]_vars

C12_Witness ==
    /\ pc = "done"
    /\ exec = "invoke_async"
    /\ Len(wire) = 3
    /\ keys # <<>>
    /\ get_hash(script) = "098e0f0d1448c0a81dafe820f66d460eb09263da"

---------------------------------------------------------------------------
(* C13: the status of a non-blocking executor only moves forward.  It is   *)
(* NotLoaded when the executor is made; a step that changes it takes it    *)
(* from NotLoaded to Loading, on an EVALSHA answered "not cached", or from *)
(* Loading to Loaded, on a SCRIPT LOAD that resolved successfully; it      *)
(* never goes back and never passes from NotLoaded to Loaded.              *)
StatusStep ==
    /\ (exec # "invoke_async" /\ exec' = "invoke_async") => fut'.status = "NotLoaded"
    /\ (exec = "invoke_async" /\ exec' = "invoke_async" /\ fut'.status # fut.status) =>
          \/ /\ fut.status = "NotLoaded"
             /\ fut'.status = "Loading"
             /\ fut.future.cmd.name = "EVALSHA"
             /\ fut.future.st = "replied"
             /\ NotCached(fut.future.reply)
          \/ /\ fut.status = "Loading"
             /\ fut'.status = "Loaded"
             /\ fut.future.cmd.name = "SCRIPT"
             /\ fut.future.st = "replied"
             /\ fut.future.reply.ok

C13_StatusMonotonic == [][StatusStep]_vars

C13_Witness ==
    /\ exec = "invoke_async"
    /\ fut.status = "Loaded"
    /\ pc = "done"

---------------------------------------------------------------------------
(* C14: between its first poll and its completion the non-blocking         *)
(* executor owns exactly one sub-operation, the last one it started: every *)
(* earlier one has resolved, so at most one command is unanswered, and a   *)
(* finished execution has none.                                            *)
C14_OneSubOperation ==
    exec = "invoke_async" =>
       /\ (pc = "async" /\ wire # <<>>) =>
             /\ fut.future.st \in {"sent", "replied"}
             /\ fut.future.cmd = wire[Len(wire)]
             /\ Len(wire) = Len(replies) + (IF fut.future.st = "sent" THEN 1 ELSE 0)
       /\ pc = "done" => Len(wire) = Len(replies)

C14_Witness ==
    /\ exec = "invoke_async"
    /\ pc = "async"
    /\ fut.status = "Loaded"
    /\ fut.future.st = "sent"
    /\ Len(wire) = 3
    /\ Len(replies) = 2

(* C15: a poll that leaves the non-blocking executor pending leaves it     *)
(* with a sub-operation that has been polled and is pending; when the poll *)
(* installed a new sub-operation it sent that one's command before         *)
(* returning.  Only an executor that was never polled holds a sub-         *)
(* operation that was never polled.                                        *)
PollStep == pc = "async" /\ replies' = replies

C15_PendingOnlyOnPolled ==
    /\ [][PollStep =>
            \/ pc' = "done"
            \/ /\ fut'.future.st = "sent"
               /\ fut'.future # fut.future => wire' = Append(wire, fut'.future.cmd)]_vars
    /\ []((pc = "async" /\ fut.future.st = "created") =>
             (fut.status = "NotLoaded" /\ wire = <<>>))

C15_Witness ==
    /\ exec = "invoke_async"
    /\ pc = "async"
    /\ fut.status = "Loading"
    /\ fut.future.st = "sent"
    /\ wire[Len(wire)] = fut.load_cmd

---------------------------------------------------------------------------
(* C16: when the server keeps its contract, a blocking execution issues at *)
(* most one SCRIPT LOAD and at most two EVALSHA, and it returns.           *)
C16_BlockingTerminates ==
    /\ [](exec = "invoke" => Count("SCRIPT", wire) <= 1 /\ Count("EVALSHA", wire) <= 2)
    /\ (pc \in {"eval", "load"}) ~> (pc = "done" /\ exec = "invoke")

C16_Witness ==
    /\ exec = "invoke"
    /\ pc = "done"
    /\ Names(wire) = RetrySequence
    /\ result.ok

(* C18: when every sub-operation is answered and the executor is polled    *)
(* after each answer, a non-blocking execution completes, having started   *)
(* at most three sub-operations; while the sub-operation it owns is        *)
(* unanswered a poll returns pending, sends nothing and leaves the         *)
(* executor as it was, with no timeout.                                    *)
C18_NonBlockingResolves ==
    /\ [](exec = "invoke_async" => Len(wire) <= 3)
    /\ []((pc = "async" /\ fut.future.st = "sent") =>
             /\ ~poll(fut, rtype).ready
             /\ poll(fut, rtype).self = fut
             /\ poll(fut, rtype).sent = <<>>)
    /\ (pc = "async") ~> (pc = "done" /\ exec = "invoke_async")

C18_Witness ==
    /\ exec = "invoke_async"
    /\ pc = "done"
    /\ Len(wire) = 3
    /\ Len(replies) = 3

---------------------------------------------------------------------------
(* C17: while the server answers every EVALSHA "not cached" and every      *)
(* SCRIPT LOAD with a value, the blocking executor has not returned: it    *)
(* is inside a query, the commands it has issued alternate EVALSHA,        *)
(* SCRIPT LOAD, EVALSHA, ... with one unanswered, and the next such answer *)
(* makes it issue the next command, however many reloads there have been   *)
(* (up to the bound of the model).                                         *)
AlwaysMiss ==
    /\ exec = "invoke"
    /\ \A i \in 1 .. Len(replies) :
          IF wire[i].name = "EVALSHA" THEN NotCached(replies[i]) ELSE replies[i].ok

\* the server's next such answer is taken and the loop goes on
MissReturns ==
    /\ \/ /\ eval_returns(Err([kind |-> NoScriptError, detail |-> "NOSCRIPT No matching script"]))
          /\ pc' = "load"
       \/ /\ load_returns(Ok(Nil))
          /\ pc' = "eval"
    /\ UNCHANGED env_vars

C17_BlockingNeverReturns ==
    AlwaysMiss =>
       /\ pc \in {"eval", "load"}
       /\ result = None
       /\ Len(wire) = Len(replies) + 1
       /\ \A i \in 1 .. Len(wire) :
             wire[i].name = (IF i % 2 = 1 THEN "EVALSHA" ELSE "SCRIPT")
       /\ Len(wire) < MaxCmds => ENABLED MissReturns

C17_Witness ==
    /\ AlwaysMiss
    /\ Len(wire) = MaxCmds
    /\ Count("SCRIPT", wire) >= 2

---------------------------------------------------------------------------
(* C19: concurrent non-blocking executions of the script against the       *)
(* store.  Each issues at most one SCRIPT LOAD, and each one that has      *)
(* completed returned the script's result decoded to the type asked for    *)
(* (a type the result decodes to), whatever the others did meanwhile.      *)
C19_ConcurrentSucceed ==
    \A p \in Procs :
       /\ Count("SCRIPT", procs[p].wire) <= 1
       /\ (/\ procs[p].pc = "done"
           /\ Decode(procs[p].rtype, RunScript(script.code, procs[p].fut.eval_cmd.args)).ok)
          => procs[p].result =
                Decode(procs[p].rtype, RunScript(script.code, procs[p].fut.eval_cmd.args))

---------------------------------------------------------------------------
(* C20: executing an invocation does not change it.  Every EVALSHA on the  *)
(* wire of one execution, first attempt or retry, carries the hash, the    *)
(* number of keys, the keys and the args of the invocation; every SCRIPT   *)
(* LOAD carries exactly the source text; and from the call until the       *)
(* outcome is taken the script, the keys and the args stay as they were,   *)
(* so the invocation can be executed again with the same commands.         *)
SameCommands ==
    \A i \in 1 .. Len(wire) :
       IF wire[i].name = "EVALSHA"
       THEN wire[i].args = <<script.hash, Itoa(Len(keys))>> \o keys \o args
       ELSE /\ wire[i].name = "SCRIPT"
            /\ wire[i].args = <<"LOAD", script.code>>

InvocationKept ==
    pc # "idle" => /\ script' = script
                   /\ keys' = keys
                   /\ args' = args

C20_ExecutionKeepsInvocation == [] SameCommands /\ [][InvocationKept]_vars

C20_Witness ==
    /\ pc = "done"
    /\ Count("EVALSHA", wire) >= 2
    /\ Count("SCRIPT", wire) >= 1
    /\ keys # <<>>
    /\ args # <<>>

=============================================================================
